---- MODULE Spec2Model ----
(***************************************************************************)
(* Model of aiAssistant.py: the Pinecone index manager (get_vectorstore),  *)
(* the attachment resolver (get_attachment_ids_for_articles) and the       *)
(* retriever/answerer (ask_question).                                      *)
(*                                                                         *)
(* Python values are tagged records [py |-> <type>, val |-> <value>];      *)
(* Python strings that the code inspects character by character are        *)
(* sequences of one-character strings.                                     *)
(***************************************************************************)
EXTENDS Integers, Sequences, FiniteSets, Bags, TLC

VARIABLES
    \* ---- the remote vector index and the corpus file (environment) ----
    indexExists,   \* PINECONE_INDEX_NAME in pc.list_indexes().names()
    index,         \* bag of the chunk ids stored in the remote index
    index0,        \* the index content before any call (never changes)
    corpusStatus,  \* "ok" | "missing" | "malformed" : processed_zendesk_docs_v2.json
    nChunks,       \* len(chunks) the splitter yields for the corpus
    articles,      \* data["documents"] of the corpus file
    \* ---- get_vectorstore, per caller ----
    pc,            \* position of each caller inside get_vectorstore
    off,           \* loop variable i of the batch loop
    batches,       \* batches issued by the current call: <<i, end_idx, completed>>
    ncalls,        \* number of calls started by the caller
    ret,           \* outcome of the current/last call
    paths,         \* outcomes of the completed calls, in order
    test_docs,     \* len(test_docs) of the last probe that did not raise
    probed_empty,  \* whether the index was empty when the caller's last probe ran
    \* ---- ask_question ----
    apc,           \* position inside ask_question
    chat_history,  \* argument chat_history
    docs,          \* retriever.get_relevant_documents(question)
    sources,       \* the list `sources` (before deduplication)
    unique_sources,\* the list returned as second component
    attachment_ids,\* set of the ids get_attachment_ids_for_articles(article_ids) returned
    messages,      \* the list `messages` handed to openai.chat.completions.create
    aret,          \* outcome of ask_question
    \* ---- get_attachment_ids_for_articles called directly ----
    req_ids,       \* argument article_ids
    att_result,    \* the returned list unique_ids
    att_outcome    \* "none" | "returned" | "raised"

idxVars == <<indexExists, index, index0, corpusStatus, nChunks, articles>>
gvVars  == <<pc, off, batches, ncalls, ret, paths, test_docs, probed_empty>>
askVars == <<apc, chat_history, docs, sources, unique_sources, attachment_ids, messages, aret>>
attVars == <<req_ids, att_result, att_outcome>>
vars    == <<idxVars, gvVars, askVars, attVars>>

(***************************************************************************)
(* Bounds of the model and constants of the program                        *)
(***************************************************************************)
batch_size == 100
MaxChunks  == 201
MaxCalls   == 3
RetrieverK == 3

Callers == {1, 2}
Min(a, b) == IF a < b THEN a ELSE b

\* the corpus sizes explored: empty, one chunk, around one batch, several batches
ChunkCounts == {0, 1, batch_size - 1, batch_size, batch_size + 1, MaxChunks}

\* chunks[lo:hi] as a bag of chunk ids
Slice(lo, hi) == SetToBag(lo .. (hi - 1))

\* the index content of one complete build of the corpus
OneBuild == Slice(0, nChunks)

(***************************************************************************)
(* get_vectorstore (lines 51-137) and initialize_pinecone (lines 30-49).   *)
(* Every remote call is one step, so that two callers interleave between   *)
(* remote calls; a remote call may raise.                                  *)
(***************************************************************************)

\* the call raises: the exception leaves get_vectorstore
Raise(c, err) ==
    /\ pc' = [pc EXCEPT ![c] = "failed"]
    /\ ret' = [ret EXCEPT ![c] = err]

\* `return vectorstore` at line 67 ("connected") or at line 137 ("built")
ReturnHandle(c, how) ==
    /\ pc' = [pc EXCEPT ![c] = "done"]
    /\ ret' = [ret EXCEPT ![c] = how]

\* the calls started so far, by all callers (bounded by MaxCalls in the model)
TotalCalls == ncalls[1] + ncalls[2]

\* a caller enters get_vectorstore
GvEnter(c) ==
    /\ pc[c] = "idle"
    /\ TotalCalls < MaxCalls
    /\ pc' = [pc EXCEPT ![c] = "list"]
    /\ ncalls' = [ncalls EXCEPT ![c] = @ + 1]
    /\ ret' = [ret EXCEPT ![c] = "none"]
    /\ batches' = [batches EXCEPT ![c] = <<>>]
    /\ off' = [off EXCEPT ![c] = 0]
    /\ UNCHANGED <<idxVars, paths, test_docs, probed_empty>>

\* line 34: pc.list_indexes().names()
ListIndexes(c) ==
    /\ pc[c] = "list"
    /\ \E ok \in BOOLEAN :
          IF ok
          THEN /\ pc' = [pc EXCEPT ![c] = IF indexExists THEN "probe" ELSE "create"]
               /\ UNCHANGED ret
          ELSE Raise(c, "RemoteError")
    /\ UNCHANGED <<idxVars, off, batches, ncalls, paths, test_docs, probed_empty>>

\* lines 36-44: pc.create_index(...); creating an index that another caller
\* has created in the meantime raises
CreateIndex(c) ==
    /\ pc[c] = "create"
    /\ \E ok \in BOOLEAN :
          IF ok /\ ~indexExists
          THEN /\ indexExists' = TRUE
               /\ pc' = [pc EXCEPT ![c] = "probe"]
               /\ UNCHANGED ret
          ELSE /\ Raise(c, "RemoteError")
               /\ UNCHANGED indexExists
    /\ UNCHANGED <<index, index0, corpusStatus, nChunks, articles,
                   off, batches, ncalls, paths, test_docs, probed_empty>>

\* lines 57-71: connect and similarity_search("test", k=1).  The search
\* either raises (caught at line 69: fall through to the build path) or
\* returns at most one document; its result test_docs is not inspected.
ProbeContinues(c, raised) ==
    IF raised
    THEN /\ pc' = [pc EXCEPT ![c] = "load"]
         /\ UNCHANGED <<ret, test_docs>>
    ELSE /\ test_docs' = [test_docs EXCEPT ![c] = Min(1, BagCardinality(index))]
         /\ ReturnHandle(c, "connected")

Probe(c) ==
    /\ pc[c] = "probe"
    /\ \E raised \in BOOLEAN : ProbeContinues(c, raised)
    /\ probed_empty' = [probed_empty EXCEPT ![c] = (index = EmptyBag)]
    /\ UNCHANGED <<idxVars, off, batches, ncalls, paths>>

\* LoadCorpus without the failure of open/json.load
LoadCorpus_IgnoringErrors(c) ==
    /\ pc[c] = "load"
    /\ pc' = [pc EXCEPT ![c] = "handle"]
    /\ UNCHANGED <<ret, idxVars, off, batches, ncalls, paths, test_docs, probed_empty>>

\* lines 78-110: open and parse the corpus file, build documents, split
LoadCorpus(c) ==
    /\ pc[c] = "load"
    /\ IF corpusStatus = "ok"
       THEN /\ pc' = [pc EXCEPT ![c] = "handle"]
            /\ UNCHANGED ret
       ELSE Raise(c, "CorpusError")
    /\ UNCHANGED <<idxVars, off, batches, ncalls, paths, test_docs, probed_empty>>

\* EndIdx one short
EndIdx_OffByOne(i) == Min(i + batch_size - 1, nChunks)

\* line 125: end_idx = min(i + batch_size, len(chunks))
EndIdx(i) == Min(i + batch_size, nChunks)

\* line 124: the next value of range(0, len(chunks), batch_size), or the end of the loop
LoopNext(c, i) ==
    IF i < nChunks
    THEN /\ pc' = [pc EXCEPT ![c] = "batch"]
         /\ off' = [off EXCEPT ![c] = i]
         /\ UNCHANGED ret
    ELSE /\ off' = [off EXCEPT ![c] = i]
         /\ ReturnHandle(c, "built")

\* lines 117-122: PineconeVectorStore.from_documents(documents=[]), then the
\* first test of the loop
CreateHandle(c) ==
    /\ pc[c] = "handle"
    /\ \E ok \in BOOLEAN :
          IF ok
          THEN LoopNext(c, 0)
          ELSE /\ Raise(c, "RemoteError")
               /\ UNCHANGED off
    /\ UNCHANGED <<idxVars, batches, ncalls, paths, test_docs, probed_empty>>

\* what a failed add_documents may have stored of chunks[lo:hi] before it raised
PartialEnds(lo, hi) == {lo, lo + ((hi - lo) \div 2)}

\* lines 128-131: batch = chunks[i:end_idx]; vectorstore.add_documents(batch).
\* No ids are passed, so every inserted chunk becomes a new index entry.
AddBatch(c) ==
    /\ pc[c] = "batch"
    /\ LET i == off[c]
           end_idx == EndIdx(i)
       IN \E ok \in BOOLEAN :
             IF ok
             THEN /\ index' = index (+) Slice(i, end_idx)
                  /\ batches' = [batches EXCEPT ![c] = Append(@, <<i, end_idx, TRUE>>)]
                  /\ LoopNext(c, i + batch_size)
             ELSE /\ \E stored \in PartialEnds(i, end_idx) :
                        index' = index (+) Slice(i, stored)
                  /\ batches' = [batches EXCEPT ![c] = Append(@, <<i, end_idx, FALSE>>)]
                  /\ Raise(c, "RemoteError")
                  /\ UNCHANGED off
    /\ UNCHANGED <<indexExists, index0, corpusStatus, nChunks, articles,
                   ncalls, paths, test_docs, probed_empty>>

\* whether the caller holds a vector store handle returned by its last call
HasHandle(c) == ret[c] \in {"connected", "built"}

\* the call returns (or its exception reaches the caller)
GvReturn(c) ==
    /\ pc[c] \in {"done", "failed"}
    /\ pc' = [pc EXCEPT ![c] = "idle"]
    /\ paths' = [paths EXCEPT ![c] = Append(@, ret[c])]
    /\ UNCHANGED <<idxVars, off, batches, ncalls, ret, test_docs, probed_empty>>

(***************************************************************************)
(* Python values                                                           *)
(***************************************************************************)
Str(chars)   == [py |-> "str",  val |-> chars]   \* a str, as its characters
PyNone       == [py |-> "None", val |-> <<>>]
PyList(xs)   == [py |-> "list", val |-> xs]
\* a dict of the JSON tree, as its (key, value) pairs in insertion order
PyDict(kvs)  == [py |-> "dict", val |-> kvs]
\* a dict with a fixed set of keys, as a record
PyMap(r)     == [py |-> "dict", val |-> r]

\* bool(v) for the values above
Truthy(v) == v.py # "None" /\ v.val # <<>>

\* d.get(key, default) for a record-shaped dict
Get(d, key, default) == IF key \in DOMAIN d THEN d[key] ELSE default

\* key in d / d.get(key) for a pair-list dict
HasKey(kvs, key) == \E i \in 1..Len(kvs) : kvs[i][1] = key
Lookup(kvs, key) ==
    IF HasKey(kvs, key)
    THEN kvs[CHOOSE i \in 1..Len(kvs) : kvs[i][1] = key][2]
    ELSE PyNone

Range(f) == {f[i] : i \in DOMAIN f}

StartsWith(s, prefix) ==
    Len(s) >= Len(prefix) /\ SubSeq(s, 1, Len(prefix)) = prefix

Digits == {"0", "1", "2", "3", "4", "5", "6", "7", "8", "9"}

(***************************************************************************)
(* extract_images_from_structure (lines 190-204)                           *)
(***************************************************************************)
ImageType == Str(<<"i", "m", "a", "g", "e">>)

RECURSIVE extract_images_from_structure(_)
RECURSIVE ExtractItems(_, _)
RECURSIVE ExtractFields(_, _)

\* lines 195-196: for item in structure: image_ids.extend(recurse(item))
ExtractItems(items, i) ==
    IF i > Len(items) THEN <<>>
    ELSE extract_images_from_structure(items[i]) \o ExtractItems(items, i + 1)

\* lines 200-202: for key, value in structure.items(): if key != 'type': ...
ExtractFields(kvs, i) ==
    IF i > Len(kvs) THEN <<>>
    ELSE (IF kvs[i][1] # "type"
          THEN extract_images_from_structure(kvs[i][2]) ELSE <<>>)
         \o ExtractFields(kvs, i + 1)

extract_images_from_structure(structure) ==
    IF structure.py = "list" THEN ExtractItems(structure.val, 1)
    ELSE IF structure.py = "dict"
    THEN (IF Lookup(structure.val, "type") = ImageType /\ HasKey(structure.val, "id")
          THEN <<Lookup(structure.val, "id")>> ELSE <<>>)
         \o ExtractFields(structure.val, 1)
    ELSE <<>>

(***************************************************************************)
(* re.findall(r'!\[Image\]\(IMAGE_ID:(\d+)\)', content)  (lines 171-172)   *)
(***************************************************************************)
ImagePrefix == <<"!", "[", "I", "m", "a", "g", "e", "]", "(",
                 "I", "M", "A", "G", "E", "_", "I", "D", ":">>

\* the end of the longest run of \d starting at position i (i - 1 if none)
RECURSIVE DigitRunEnd(_, _)
DigitRunEnd(s, i) ==
    IF i <= Len(s) /\ s[i] \in Digits THEN DigitRunEnd(s, i + 1) ELSE i - 1

\* CaptureEnd for a group (\w+) instead of (\d+)
RECURSIVE WordRunEnd(_, _)
WordRunEnd(s, i) ==
    IF i <= Len(s) /\ s[i] \notin {")", "(", "!", "[", "]", ":", " "}
    THEN WordRunEnd(s, i + 1) ELSE i - 1

\* the capture class of the pattern: which characters (\d+) consumes
CaptureEnd(s, i) == DigitRunEnd(s, i)

\* non-overlapping matches, scanning left to right from position i
RECURSIVE FindAllFrom(_, _)
FindAllFrom(s, i) ==
    IF i > Len(s) THEN <<>>
    ELSE LET b == i + Len(ImagePrefix)      \* first character of the group
             e == CaptureEnd(s, b)          \* last character of the group
         IN IF /\ i + Len(ImagePrefix) - 1 <= Len(s)
               /\ SubSeq(s, i, i + Len(ImagePrefix) - 1) = ImagePrefix
               /\ e >= b
               /\ e + 1 <= Len(s)
               /\ s[e + 1] = ")"
            THEN <<Str(SubSeq(s, b, e))>> \o FindAllFrom(s, e + 2)
            ELSE FindAllFrom(s, i + 1)

ContentImageIds(content) == FindAllFrom(content, 1)

(***************************************************************************)
(* get_attachment_ids_for_articles (lines 139-188)                         *)
(***************************************************************************)
\* lines 152-157: ids of the entries of the attachments field
RECURSIVE ListedIds(_, _)
ListedIds(atts, i) ==
    IF i > Len(atts) THEN <<>>
    ELSE (IF Truthy(Get(atts[i], "id", PyNone))
          THEN <<atts[i].id>> ELSE <<>>) \o ListedIds(atts, i + 1)

\* lines 151-175: what one matching article appends to attachment_ids
ArticleImageIds(article) ==
    LET atts    == Get(article, "attachments", <<>>)
        tree    == Get(article, "document_structure", PyNone)
        content == Get(article, "full_content", <<>>)
    IN (IF atts # <<>> THEN ListedIds(atts, 1) ELSE <<>>)
       \o (IF Truthy(tree) THEN extract_images_from_structure(tree) ELSE <<>>)
       \o (IF content # <<>> THEN ContentImageIds(content) ELSE <<>>)

\* lines 147-148: the loop over data["documents"]
RECURSIVE CollectIds(_, _, _)
CollectIds(documents, ids, i) ==
    IF i > Len(documents) THEN <<>>
    ELSE (IF Get(documents[i], "id", PyNone) \in ids
          THEN ArticleImageIds(documents[i]) ELSE <<>>)
         \o CollectIds(documents, ids, i + 1)

\* lines 140-188: a corpus file that cannot be read or parsed raises inside
\* the try block; the except clause logs it and the empty list is returned.
\* line 186: set(attachment_ids)
get_attachment_ids_for_articles(article_ids) ==
    IF corpusStatus = "ok"
    THEN Range(CollectIds(articles, article_ids, 1))
    ELSE {}

\* line 186: list(set(...)) lists the elements of the set once each, in an
\* order the language does not fix
ListsOfSet(S) == {f \in [1..Cardinality(S) -> S] : Range(f) = S}

(***************************************************************************)
(* ask_question (lines 206-375)                                            *)
(***************************************************************************)
HttpPrefix == <<"h", "t", "t", "p">>

\* "https://trilogyeffective.zendesk.com/hc/en-us" and "/articles/" (line 235)
DocBaseURL == <<"h", "t", "t", "p", "s", ":", "/", "/", "t", "r", "i", "l", "o",
                "g", "y", "e", "f", "f", "e", "c", "t", "i", "v", "e", ".", "z",
                "e", "n", "d", "e", "s", "k", ".", "c", "o", "m", "/", "h", "c",
                "/", "e", "n", "-", "u", "s">>
ArticlesPath == <<"/", "a", "r", "t", "i", "c", "l", "e", "s", "/">>

\* line 234: the url is kept when this holds
KeepsUrl(url) == Truthy(url) /\ StartsWith(url.val, HttpPrefix)

\* lines 226-241: the source record of one hit
SourceOf(doc) ==
    LET title      == Get(doc.metadata, "title", "Unknown")
        article_id == Get(doc.metadata, "article_id", Str(<<>>))
        url        == Get(doc.metadata, "url", Str(<<>>))
    IN [title      |-> title,
        article_id |-> article_id,
        url        |-> IF KeepsUrl(url) THEN url
                       ELSE Str(DocBaseURL \o ArticlesPath \o article_id.val)]

\* lines 220-241: the list `sources`
SourcesOf(hits) == [i \in 1..Len(hits) |-> SourceOf(hits[i])]

\* lines 230-231: the list `article_ids`, as the set handed to `in`
ArticleIdsOf(hits) ==
    {SourceOf(hits[i]).article_id : i \in {j \in 1..Len(hits) :
                                            Truthy(SourceOf(hits[j]).article_id)}}

\* KeepsSource without the test of seen_ids
KeepsSource_Unseen(source, seen_ids) == Truthy(source.article_id)

\* line 258: whether a source is appended to unique_sources
KeepsSource(source, seen_ids) ==
    source.article_id \notin seen_ids /\ Truthy(source.article_id)

\* lines 255-260: the loop building unique_sources
RECURSIVE UniqueFrom(_, _, _)
UniqueFrom(srcs, i, seen_ids) ==
    IF i > Len(srcs) THEN <<>>
    ELSE IF KeepsSource(srcs[i], seen_ids)
         THEN <<srcs[i]>> \o UniqueFrom(srcs, i + 1, seen_ids \cup {srcs[i].article_id})
         ELSE UniqueFrom(srcs, i + 1, seen_ids)

UniqueSources(srcs) == UniqueFrom(srcs, 1, {})

\* line 344: the system message (its text embeds the context and the images)
SystemMessage == PyMap([role |-> "system", content |-> Str(<<"system_message">>)])

\* line 358: the user's question
Question == Str(<<"question">>)
QuestionMessage == PyMap([role |-> "user", content |-> Question])

\* line 350: isinstance(message, dict) and "role" in message and "content" in message
WellFormed(message) ==
    /\ message.py = "dict"
    /\ "role" \in DOMAIN message.val
    /\ "content" \in DOMAIN message.val

\* RoleForwarded letting system messages through
RoleForwarded_WithSystem(role) == role \in {"user", "assistant", "system"}

\* line 352: message["role"] in ["user", "assistant"]
RoleForwarded(role) == role \in {"user", "assistant"}

\* lines 349-355: the history messages appended
RECURSIVE HistoryMessages(_, _)
HistoryMessages(history, i) ==
    IF i > Len(history) THEN <<>>
    ELSE (IF WellFormed(history[i]) /\ RoleForwarded(history[i].val.role)
          THEN <<history[i]>> ELSE <<>>)
         \o HistoryMessages(history, i + 1)

\* lines 344-358: the list `messages`
BuildMessages(history) ==
    <<SystemMessage>> \o HistoryMessages(history, 1) \o <<QuestionMessage>>

\* line 363: len(msg.get('content', '')) raises TypeError for a content
\* that has no length
LenRaises(msgs) ==
    \E i \in 1..Len(msgs) : Get(msgs[i].val, "content", Str(<<>>)).py = "None"

(***************************************************************************)
(* Inputs: retrieved hits, dialogue histories, corpus articles             *)
(***************************************************************************)
MaxHistory  == 2
MaxArticles == 2

SeqsUpTo(S, n) == UNION {[1..k -> S] : k \in 0..n}

Id42 == Str(<<"4", "2">>)
Id99 == Str(<<"9", "9">>)
Id7  == Str(<<"7">>)
IdA1 == Str(<<"a", "1">>)
IdA2 == Str(<<"a", "2">>)
IdA3 == Str(<<"a", "3">>)
IdA4 == Str(<<"a", "4">>)
IdA5 == Str(<<"a", "5">>)
Id3  == Str(<<"3">>)
Id12 == Str(<<"1", "2">>)

UrlAbsolute == Str(<<"h", "t", "t", "p", "s", ":", "/", "/", "h", ".", "i", "o", "/", "a">>)
UrlHttpx    == Str(<<"h", "t", "t", "p", "x">>)
UrlFtp      == Str(<<"f", "t", "p", ":", "/", "/", "h", ".", "i", "o", "/", "a">>)
UrlRelative == Str(<<"/", "h", "c", "/", "a">>)

\* metadata of the hits a similarity search may return
Metas ==
    { [title |-> "Setup", article_id |-> Id42, url |-> UrlAbsolute],
      [title |-> "Setup (part 2)", article_id |-> Id42, url |-> UrlRelative],
      [title |-> "Billing", article_id |-> Id99, url |-> Str(<<>>)],
      [url |-> UrlHttpx],
      [article_id |-> Id7, url |-> UrlFtp],
      [title |-> "Orphan", article_id |-> Str(<<>>)] }

Hits == {[page_content |-> "chunk", metadata |-> m] : m \in Metas}

\* the entries a caller may put into chat_history
HistoryEntries ==
    { PyMap([role |-> "user", content |-> Str(<<"hello">>)]),
      PyMap([role |-> "assistant", content |-> Str(<<"hi">>)]),
      PyMap([role |-> "system", content |-> Str(<<"be terse">>)]),
      PyMap([content |-> Str(<<"no role">>)]),
      PyMap([role |-> "user"]),
      PyMap([role |-> "tool", content |-> Str(<<"42">>)]),
      Str(<<"not a map">>),
      PyMap([role |-> "user", content |-> PyNone]),
      PyMap([role |-> "assistant", content |-> PyList(<<Str(<<"part">>)>>)]) }

ImageToken(id) == ImagePrefix \o id.val \o <<")">>
Text == <<"s", "e", "e", " ">>

ImageNode(id) == PyDict(<< <<"type", ImageType>>, <<"id", id>> >>)

\* article records of the corpus file
ArticlePool ==
    { \* the three encodings, numeric inline id occurring twice
      [id |-> Id42, title |-> "Setup",
       attachments |-> << [id |-> IdA1] >>,
       document_structure |-> PyList(<< ImageNode(IdA2) >>),
       full_content |-> Text \o ImageToken(Id3) \o Text \o ImageToken(Id3)],
      \* the three encodings, non-numeric inline id occurring twice
      [id |-> Id42, title |-> "Setup",
       attachments |-> << [id |-> IdA1] >>,
       document_structure |-> PyDict(<< <<"type", Str(<<"d", "o", "c">>)>>,
                                        <<"children", PyList(<< ImageNode(IdA2) >>)>> >>),
       full_content |-> ImageToken(IdA3) \o Text \o ImageToken(IdA3)],
      \* no image by any method
      [id |-> Id99, title |-> "Billing", full_content |-> Text],
      \* entries without id, nested nodes, an image node without id
      [id |-> Id99, title |-> "Billing",
       attachments |-> << [name |-> "x.png"], [id |-> Str(<<>>)], [id |-> IdA1] >>,
       document_structure |->
           PyDict(<< <<"type", Str(<<"d", "o", "c">>)>>,
                     <<"body", PyDict(<< <<"items",
                          PyList(<< ImageNode(IdA4),
                                    PyDict(<< <<"type", ImageType>> >>) >>)>> >>)>> >>)],
      \* an image node held by a field named type, one nested in an image node
      [id |-> Id7,
       document_structure |->
           PyDict(<< <<"type", ImageNode(IdA5)>>,
                     <<"figure", PyDict(<< <<"type", ImageType>>, <<"id", IdA2>>,
                                           <<"caption", ImageNode(IdA4)>> >>)>> >>),
       full_content |-> ImageToken(Str(<<>>)) \o ImageToken(Id12)
                        \o ImagePrefix \o <<"1", "2", "x", ")">>],
      \* the same id by two methods
      [id |-> Id7, attachments |-> << [id |-> Id3] >>,
       full_content |-> ImageToken(Id3)] }

Corpora == SeqsUpTo(ArticlePool, MaxArticles)

\* the corpus used while the index manager and the answerer are explored
SampleArticles ==
    << [id |-> Id42, title |-> "Setup",
        attachments |-> << [id |-> IdA1] >>,
        document_structure |-> PyList(<< ImageNode(IdA2) >>),
        full_content |-> Text \o ImageToken(Id3) \o Text \o ImageToken(Id3)],
       [id |-> Id99, title |-> "Billing", full_content |-> Text] >>

(***************************************************************************)
(* Specification of the index manager: two callers of get_vectorstore      *)
(***************************************************************************)
AskIdle ==
    /\ apc = "idle" /\ chat_history = <<>> /\ docs = <<>> /\ sources = <<>>
    /\ unique_sources = <<>> /\ attachment_ids = {} /\ messages = <<>> /\ aret = "none"

AttIdle == req_ids = {} /\ att_result = <<>> /\ att_outcome = "none"

GvInit ==
    /\ pc = [c \in Callers |-> "idle"]
    /\ off = [c \in Callers |-> 0]
    /\ batches = [c \in Callers |-> <<>>]
    /\ ncalls = [c \in Callers |-> 0]
    /\ ret = [c \in Callers |-> "none"]
    /\ paths = [c \in Callers |-> <<>>]
    /\ test_docs = [c \in Callers |-> 0]
    /\ probed_empty = [c \in Callers |-> FALSE]

\* the remote index before the first call: absent, empty, or holding the
\* corpus from an earlier build
IndexInit ==
    /\ corpusStatus \in {"ok", "missing", "malformed"}
    /\ nChunks \in ChunkCounts
    /\ indexExists \in BOOLEAN
    /\ index \in (IF indexExists THEN {EmptyBag, OneBuild} ELSE {EmptyBag})
    /\ index0 = index

InitIndex ==
    /\ IndexInit
    /\ articles = SampleArticles
    /\ GvInit /\ AskIdle /\ AttIdle

NextIndex ==
    \/ \E c \in Callers : GvEnter(c)      /\ UNCHANGED <<askVars, attVars>>
    \/ \E c \in Callers : ListIndexes(c)  /\ UNCHANGED <<askVars, attVars>>
    \/ \E c \in Callers : CreateIndex(c)  /\ UNCHANGED <<askVars, attVars>>
    \/ \E c \in Callers : Probe(c)        /\ UNCHANGED <<askVars, attVars>>
    \/ \E c \in Callers : LoadCorpus(c)   /\ UNCHANGED <<askVars, attVars>>
    \/ \E c \in Callers : CreateHandle(c) /\ UNCHANGED <<askVars, attVars>>
    \/ \E c \in Callers : AddBatch(c)     /\ UNCHANGED <<askVars, attVars>>
    \/ \E c \in Callers : GvReturn(c)     /\ UNCHANGED <<askVars, attVars>>

SpecIndex == InitIndex /\ [][NextIndex]_vars

(***************************************************************************)
(* Specification of the attachment resolver called on its own              *)
(***************************************************************************)
RequestableIds == {Id42, Id99, Id7}

InitAttach ==
    /\ corpusStatus \in {"ok", "missing", "malformed"}
    /\ articles \in Corpora
    /\ req_ids \in SUBSET RequestableIds
    /\ att_result = <<>> /\ att_outcome = "none"
    /\ nChunks = 0 /\ indexExists = FALSE /\ index = EmptyBag /\ index0 = EmptyBag
    /\ GvInit /\ AskIdle

\* a call of get_attachment_ids_for_articles(req_ids)
ResolveAttachments ==
    /\ att_outcome = "none"
    /\ att_result' \in ListsOfSet(get_attachment_ids_for_articles(req_ids))
    /\ att_outcome' = "returned"
    /\ UNCHANGED <<req_ids, idxVars, gvVars, askVars>>

NextAttach == ResolveAttachments

SpecAttach == InitAttach /\ [][NextAttach]_vars

(***************************************************************************)
(* Specification of the answerer: one call of ask_question, which calls    *)
(* get_vectorstore when no vector store is passed                          *)
(***************************************************************************)
Asker == 1

InitAsk ==
    /\ corpusStatus \in {"ok", "missing", "malformed"}
    /\ nChunks \in {0, 1}
    /\ indexExists \in BOOLEAN
    /\ index \in (IF indexExists THEN {EmptyBag, OneBuild} ELSE {EmptyBag})
    /\ index0 = index
    /\ articles = SampleArticles
    /\ GvInit /\ AskIdle /\ AttIdle

\* lines 207-208: ask_question(question, chat_history, vectorstore=None)
AskWithoutStore ==
    /\ apc = "idle"
    /\ GvEnter(Asker)
    /\ apc' = "get_vectorstore"
    /\ UNCHANGED <<chat_history, docs, sources, unique_sources, attachment_ids,
                   messages, aret, attVars>>

\* ask_question called with the handle of an existing index
AskWithStore ==
    /\ apc = "idle"
    /\ indexExists
    /\ apc' = "retrieve"
    /\ UNCHANGED <<chat_history, docs, sources, unique_sources, attachment_ids,
                   messages, aret, idxVars, gvVars, attVars>>

\* the steps of the get_vectorstore call made at line 208
InGetVectorstore == apc = "get_vectorstore" /\ UNCHANGED <<askVars, attVars>>

AskListIndexes  == InGetVectorstore /\ ListIndexes(Asker)
AskCreateIndex  == InGetVectorstore /\ CreateIndex(Asker)
AskProbe        == InGetVectorstore /\ Probe(Asker)
AskLoadCorpus   == InGetVectorstore /\ LoadCorpus(Asker)
AskCreateHandle == InGetVectorstore /\ CreateHandle(Asker)
AskAddBatch     == InGetVectorstore /\ AddBatch(Asker)

\* line 208 returns the handle, or its exception leaves ask_question
AskGvReturn ==
    /\ apc = "get_vectorstore"
    /\ GvReturn(Asker)
    /\ IF pc[Asker] = "done"
       THEN apc' = "retrieve" /\ UNCHANGED aret
       ELSE apc' = "failed" /\ aret' = ret[Asker]
    /\ UNCHANGED <<chat_history, docs, sources, unique_sources, attachment_ids,
                   messages, attVars>>

\* lines 211-217: the MMR search returns at most k = 3 hits, none from an
\* empty index; the remote call may raise
AskRetrieve(HitSeqs) ==
    /\ apc = "retrieve"
    /\ \E ok \in BOOLEAN :
          IF ok
          THEN /\ docs' \in (IF index = EmptyBag THEN {<<>>}
                             ELSE HitSeqs)
               /\ apc' = "compose"
               /\ UNCHANGED aret
          ELSE /\ apc' = "failed"
               /\ aret' = "RemoteError"
               /\ UNCHANGED docs
    /\ UNCHANGED <<chat_history, sources, unique_sources, attachment_ids,
                   messages, idxVars, gvVars, attVars>>

\* lines 220-363: sources, attachment ids, unique sources, messages and the
\* debug print of the messages
AskCompose(Histories) ==
    /\ apc = "compose"
    /\ \E history \in Histories :
          /\ chat_history' = history
          /\ messages' = BuildMessages(history)
    /\ sources' = SourcesOf(docs)
    /\ attachment_ids' = get_attachment_ids_for_articles(ArticleIdsOf(docs))
    /\ unique_sources' = UniqueSources(sources')
    /\ IF LenRaises(messages')
       THEN apc' = "failed" /\ aret' = "TypeError"
       ELSE apc' = "model" /\ UNCHANGED aret
    /\ UNCHANGED <<docs, idxVars, gvVars, attVars>>

\* lines 366-375: the chat completion call and the return
AskModel ==
    /\ apc = "model"
    /\ \E ok \in BOOLEAN :
          IF ok
          THEN apc' = "done" /\ aret' = "answer"
          ELSE apc' = "failed" /\ aret' = "RemoteError"
    /\ UNCHANGED <<chat_history, docs, sources, unique_sources, attachment_ids,
                   messages, idxVars, gvVars, attVars>>

\* what the retriever and the caller may supply
AllHitSeqs   == SeqsUpTo(Hits, RetrieverK)
AllHistories == SeqsUpTo(HistoryEntries, MaxHistory)

SampleHitSeqs ==
    { <<>>,
      <<[page_content |-> "chunk",
         metadata |-> [title |-> "Setup", article_id |-> Id42, url |-> UrlAbsolute]]>>,
      <<[page_content |-> "chunk",
         metadata |-> [title |-> "Setup", article_id |-> Id42, url |-> UrlAbsolute]],
        [page_content |-> "chunk", metadata |-> [title |-> "Orphan"]],
        [page_content |-> "chunk",
         metadata |-> [title |-> "Billing", article_id |-> Id99, url |-> Str(<<>>)]]>> }

SampleHistories ==
    { <<>>,
      <<PyMap([role |-> "user", content |-> Str(<<"hello">>)]),
        PyMap([role |-> "assistant", content |-> Str(<<"hi">>)])>>,
      <<PyMap([role |-> "user", content |-> PyNone])>> }

\* every hit list, a few histories
NextAsk ==
    \/ AskWithoutStore
    \/ AskWithStore
    \/ AskListIndexes
    \/ AskCreateIndex
    \/ AskProbe
    \/ AskLoadCorpus
    \/ AskCreateHandle
    \/ AskAddBatch
    \/ AskGvReturn
    \/ AskRetrieve(AllHitSeqs)
    \/ AskCompose(SampleHistories)
    \/ AskModel

\* every history, a few hit lists
NextHistory ==
    \/ AskWithoutStore
    \/ AskWithStore
    \/ AskListIndexes
    \/ AskCreateIndex
    \/ AskProbe
    \/ AskLoadCorpus
    \/ AskCreateHandle
    \/ AskAddBatch
    \/ AskGvReturn
    \/ AskRetrieve(SampleHitSeqs)
    \/ AskCompose(AllHistories)
    \/ AskModel

SpecAsk == InitAsk /\ [][NextAsk]_vars

SpecHistory == InitAsk /\ [][NextHistory]_vars

(***************************************************************************)
(* Properties                                                              *)
(***************************************************************************)
\* the subsequence of seq at the positions i >= from for which Keep(i) holds
RECURSIVE SubseqWhere(_, _, _)
SubseqWhere(seq, Keep(_), from) ==
    IF from > Len(seq) THEN <<>>
    ELSE (IF Keep(from) THEN <<seq[from]>> ELSE <<>>)
         \o SubseqWhere(seq, Keep, from + 1)

NoDuplicates(seq) == \A i, j \in 1..Len(seq) : seq[i] = seq[j] => i = j

\* ask_question has returned (answer, unique_sources, [])
Answered == apc = "done" /\ aret = "answer"

\* the article_id the source record of hit i carries
HitId(i) == Get(docs[i].metadata, "article_id", Str(<<>>))

FirstWithItsId(i) == \A j \in 1..(i - 1) : HitId(j) # HitId(i)

FirstSources(Keep(_)) ==
    SubseqWhere([i \in 1..Len(docs) |-> SourceOf(docs[i])], Keep, 1)

\* C1 as stated: the returned sources hold no article_id twice and are
\* exactly the source records of the first hit of every distinct article_id
\* among the hits, in retrieval order.
C1_FirstSeenAllIds ==
    Answered =>
        /\ NoDuplicates([i \in 1..Len(unique_sources) |-> unique_sources[i].article_id])
        /\ unique_sources = FirstSources(FirstWithItsId)

FirstWithNonEmptyId(i) == HitId(i).val # <<>> /\ FirstWithItsId(i)

\* C1 amended: the returned sources hold no article_id twice and are exactly
\* the source records of the first hit of every distinct NON-EMPTY article_id
\* among the hits, in retrieval order; hits whose article_id is missing or
\* empty contribute no source.
C1_FirstSeenNonEmptyIds ==
    Answered =>
        /\ NoDuplicates([i \in 1..Len(unique_sources) |-> unique_sources[i].article_id])
        /\ unique_sources = FirstSources(FirstWithNonEmptyId)

\* three hits, two of them sharing an article_id, one without article_id
C1_Witness ==
    /\ Answered
    /\ Len(docs) = 3
    /\ HitId(1) = Id42 /\ HitId(3) = Id42
    /\ HitId(2) = Str(<<>>)
    /\ Len(unique_sources) = 1

Letters == {"a", "b", "c", "d", "e", "f", "g", "h", "i", "j", "k", "l", "m",
            "n", "o", "p", "q", "r", "s", "t", "u", "v", "w", "x", "y", "z"}

\* scheme "://" rest, with a non-empty scheme of letters and a non-empty rest
AbsoluteURL(chars) ==
    \E k \in 1..Len(chars) :
        /\ \A i \in 1..k : chars[i] \in Letters
        /\ Len(chars) > k + 3
        /\ SubSeq(chars, k + 1, k + 3) = <<":", "/", "/">>

\* C5 as stated: the url of every source record is the hit's url when that
\* is an absolute URL, and otherwise the documentation base URL followed by
\* "/articles/" and the hit's article_id.
C5_UrlPassThroughOrSynthesized ==
    apc \in {"model", "done"} =>
        \A i \in 1..Len(docs) :
            LET url == Get(docs[i].metadata, "url", Str(<<>>))
            IN sources[i].url =
                  IF AbsoluteURL(url.val) THEN url
                  ELSE Str(DocBaseURL \o ArticlesPath \o HitId(i).val)

Forwardable(entry) ==
    /\ entry.py = "dict"
    /\ {"role", "content"} \subseteq DOMAIN entry.val
    /\ entry.val.role \in {"user", "assistant"}

IsSystem(message) ==
    message.py = "dict" /\ "role" \in DOMAIN message.val /\ message.val.role = "system"

\* C3: the messages handed to the model are one system message, then the
\* history entries that are maps with role and content and a role of user or
\* assistant, unmodified and in their order, then the user question; no other
\* history entry is among them.
C3_MessageSequence ==
    (apc \in {"model", "done"} \/ (apc = "failed" /\ aret = "RemoteError" /\ messages # <<>>)) =>
        /\ Len(messages) >= 2
        /\ IsSystem(messages[1])
        /\ \A i \in 2..Len(messages) : ~IsSystem(messages[i])
        /\ messages[Len(messages)] = QuestionMessage
        /\ SubSeq(messages, 2, Len(messages) - 1) = SelectSeq(chat_history, Forwardable)

\* a history with one forwarded and one dropped entry has been sent
C3_Witness ==
    /\ Answered
    /\ Len(chat_history) = 2
    /\ Len(messages) = 3
    /\ ~WellFormed(chat_history[1])
    /\ messages[2] = chat_history[2]

\* C6 as stated: ask_question raises only when a remote call or the corpus
\* load of get_vectorstore failed; no shape of history entry or hit metadata
\* makes it raise.
C6_ShapeErrorsNeverFatal ==
    apc = "failed" => aret \in {"RemoteError", "CorpusError"}

CorpusBad == corpusStatus # "ok"

\* C7 as stated: with a missing or malformed corpus file neither the build
\* path of get_vectorstore nor ask_question (through
\* get_attachment_ids_for_articles) returns normally.
C7_CorpusErrorAlwaysFatal ==
    CorpusBad =>
        /\ \A c \in Callers : ret[c] # "built"
        /\ apc \notin {"model", "done"}

\* C7 amended: with a missing or malformed corpus file the build path of
\* get_vectorstore ends with the read/parse error before anything is
\* inserted, and that is the only way the error reaches the caller of
\* ask_question; get_attachment_ids_for_articles catches the error and
\* returns the empty list, so ask_question goes on without attachments.
C7_CorpusErrorFatalOnBuildOnly ==
    CorpusBad =>
        /\ \A c \in Callers :
              /\ pc[c] \notin {"handle", "batch"}
              /\ ret[c] # "built"
              /\ batches[c] = <<>>
        /\ index = index0
        /\ apc \in {"model", "done"} => attachment_ids = {}
        /\ aret = "CorpusError" => paths[Asker] = <<"CorpusError">>

\* an answer has been returned for hits of a corpus whose file is unreadable
C7_Witness ==
    /\ CorpusBad
    /\ Answered
    /\ ArticleIdsOf(docs) # {}
    /\ attachment_ids = {}

\* ---- attachment resolution ----
Requested == {k \in 1..Len(articles) : Get(articles[k], "id", PyNone) \in req_ids}

\* the nodes of a structure tree; ThroughType tells whether the value of a
\* field named type is descended into
RECURSIVE NodesOf(_, _)
NodesOf(node, ThroughType) ==
    {node} \cup
    (IF node.py = "list"
     THEN UNION {NodesOf(node.val[i], ThroughType) : i \in 1..Len(node.val)}
     ELSE IF node.py = "dict"
     THEN UNION {NodesOf(node.val[i][2], ThroughType) :
                    i \in {j \in 1..Len(node.val) :
                              ThroughType \/ node.val[j][1] # "type"}}
     ELSE {})

IsImageNode(node) ==
    /\ node.py = "dict"
    /\ \E i \in 1..Len(node.val) : node.val[i] = <<"type", ImageType>>
    /\ \E i \in 1..Len(node.val) : node.val[i][1] = "id"

TreeImageIds(article, ThroughType) ==
    IF "document_structure" \in DOMAIN article
    THEN {Lookup(n.val, "id") :
             n \in {m \in NodesOf(article.document_structure, ThroughType) : IsImageNode(m)}}
    ELSE {}

ListedImageIds(article, NonEmptyOnly) ==
    IF "attachments" \in DOMAIN article
    THEN {article.attachments[i].id :
             i \in {j \in 1..Len(article.attachments) :
                       /\ "id" \in DOMAIN article.attachments[j]
                       /\ NonEmptyOnly => article.attachments[j].id.val # <<>>}}
    ELSE {}

\* the ids of the tokens ![Image](IMAGE_ID:<id>) of a text, <id> being a
\* non-empty run of characters of IdChars
TokenIds(text, IdChars) ==
    {Str(SubSeq(text, b, e)) :
        <<b, e>> \in {be \in (1..Len(text)) \X (1..Len(text)) :
            /\ be[1] <= be[2]
            /\ be[1] > Len(ImagePrefix)
            /\ SubSeq(text, be[1] - Len(ImagePrefix), be[1] - 1) = ImagePrefix
            /\ \A i \in be[1]..be[2] : text[i] \in IdChars
            /\ be[2] < Len(text)
            /\ text[be[2] + 1] = ")"}}

InlineImageIds(article, IdChars) ==
    IF "full_content" \in DOMAIN article
    THEN TokenIds(article.full_content, IdChars)
    ELSE {}

AnyIdChars == Digits \cup Letters

\* C2 as stated (for a readable corpus file): the result holds each id once, and its ids are those of
\* every entry of the attachments list, of every image node at any depth of
\* document_structure and of every inline token, over the requested articles.
C2_UnionOfAllEncodings ==
    (att_outcome = "returned" /\ ~CorpusBad) =>
        /\ NoDuplicates(att_result)
        /\ Range(att_result) =
              UNION {ListedImageIds(articles[k], FALSE)
                     \cup TreeImageIds(articles[k], TRUE)
                     \cup InlineImageIds(articles[k], AnyIdChars) : k \in Requested}

\* C2 amended: when the corpus file can be read, the result holds each id
\* once, and its ids are, over the requested articles, the non-empty ids of
\* the attachments list, the ids of the image nodes of document_structure
\* that carry an id and are not inside the value of a field named type, and
\* the ids of the inline tokens whose id is a run of decimal digits; when the
\* corpus file cannot be read the result is empty.
C2_UnionOfCodeEncodings ==
    att_outcome = "returned" =>
        /\ NoDuplicates(att_result)
        /\ Range(att_result) =
              IF CorpusBad THEN {}
              ELSE UNION {ListedImageIds(articles[k], TRUE)
                          \cup TreeImageIds(articles[k], FALSE)
                          \cup InlineImageIds(articles[k], Digits) : k \in Requested}

\* a1 listed, a2 in the tree, a3 not numeric and twice in the content: a1, a2
C2_Witness ==
    /\ att_outcome = "returned"
    /\ ~CorpusBad
    /\ \E k \in Requested :
          /\ ListedImageIds(articles[k], TRUE) = {IdA1}
          /\ TreeImageIds(articles[k], FALSE) = {IdA2}
          /\ InlineImageIds(articles[k], AnyIdChars) = {IdA3}
    /\ Range(att_result) = {IdA1, IdA2}

\* ---- index manager ----
Returned(c) == pc[c] \in {"done", "idle"} /\ HasHandle(c)

\* C8 as stated: a call returns the existing handle from the probe only when
\* the probe found the index populated, and a call that returns normally for
\* a corpus of at least one chunk never leaves the index empty.
C8_NeverReturnsEmptyIndex ==
    \A c \in Callers :
        (Returned(c) /\ corpusStatus = "ok" /\ nChunks >= 1) =>
            /\ ret[c] = "connected" => test_docs[c] = 1
            /\ index # EmptyBag

\* C4 as stated: after two successive complete calls, the first building and
\* the second finding the index populated, the index holds each chunk once,
\* whatever it held before the first call.
C4_TwoCallsStoreEachChunkOnce ==
    ( /\ ncalls[2] = 0
      /\ paths[1] = <<"built", "connected">>
      /\ test_docs[1] = 1 )
    => index = OneBuild

BothBuiltFromEmpty ==
    /\ index0 = EmptyBag
    /\ \A c \in Callers : paths[c] = <<"built">> /\ probed_empty[c]

\* C10 as stated: when two concurrent callers both saw the index unpopulated
\* and both built, the index holds each chunk once, as after a single build.
C10_ConcurrentBuildIdempotent ==
    BothBuiltFromEmpty => index = OneBuild

NumBatches == (nChunks + batch_size - 1) \div batch_size

\* C9: the batches a call issues are, in order, chunks 100*j .. min(100*(j+1),
\* N)-1 for j = 0, 1, ..: non-empty, of at most 100 chunks, each issued after
\* the one before it completed; a call that returns from the build path has
\* issued ceil(N/100) completed batches covering every chunk once (so a lone
\* build of an empty index stores every chunk once); after a failed batch the
\* call raises and issues no further batch.
C9_SequentialBatches ==
    \A c \in Callers :
        LET log == batches[c] IN
        /\ \A j \in 1..Len(log) :
              /\ log[j][1] = batch_size * (j - 1)
              /\ log[j][2] = Min(batch_size * j, nChunks)
              /\ log[j][1] < log[j][2]
              /\ log[j][2] - log[j][1] <= batch_size
              /\ j < Len(log) => log[j][3]
        /\ Len(log) <= NumBatches
        /\ (Len(log) > 0 /\ ~log[Len(log)][3]) => (pc[c] \in {"failed", "idle"} /\ ~HasHandle(c))
        /\ ret[c] = "built" =>
              /\ Len(log) = NumBatches
              /\ \A j \in 1..Len(log) : log[j][3]
              /\ \A k \in 0..(nChunks - 1) :
                    Cardinality({j \in 1..Len(log) : log[j][1] <= k /\ k < log[j][2]}) = 1
              /\ (TotalCalls = 1 /\ index0 = EmptyBag) => index = OneBuild

\* a build of three batches has returned, after an earlier call of the same
\* caller had failed
C9_Witness ==
    \E c \in Callers :
        /\ ret[c] = "built"
        /\ Len(batches[c]) = 3
        /\ batches[c][3] = <<2 * batch_size, nChunks, TRUE>>
        /\ Len(paths[c]) >= 1
        /\ paths[c][1] = "RemoteError"

====
